---- MODULE Spec2Model ----
(***************************************************************************)
(* Model of the two prediction converters of ostua_mammals:                *)
(*   src/src/json_to_csv.py     JSON -> three CSV files                    *)
(*   src/src/json_to_sqlite.py  JSON -> SQLite database predictions.db     *)
(* Both are run on the same command line argv; they share no state, so     *)
(* their steps interleave freely.                                          *)
(*                                                                         *)
(* Encoding of Python values.  A str is the sequence of its characters     *)
(* ("" is <<>>); a number, and a label whose characters play no role, is a *)
(* one-element sequence holding its literal (<<"0.1">>, <<"animal">>);     *)
(* None is <<"None">>.  A dict is a record: a key the dict lacks is not in *)
(* its DOMAIN.  A list is a sequence.                                      *)
(* Of the six pass-through scalars of a prediction only filepath is kept   *)
(* (the only one a table constraint depends on).                           *)
(***************************************************************************)
EXTENDS Integers, Sequences, FiniteSets, TLC

VARIABLES
    argv,        \* sys.argv[1:]: the input files, as the file system holds them:
                 \* [kind |-> "missing"], [kind |-> "invalid"] (not JSON) or
                 \* [kind |-> "json", data |-> the document]
    \* ---- json_to_csv.py
    csv_pc,      \* "start" | "loop" | "done" | "crashed"
    csv_k,       \* number of predictions the for loop of main has consumed
    sum_rows,    \* rows written to predictions_summary.csv
    cls_rows,    \* rows written to classifications.csv
    det_rows,    \* rows written to detections.csv
    \* ---- json_to_sqlite.py
    pc,          \* "main" | "preds" | "insert" | "done" | "crashed"
    f,           \* index in argv of the file main's for loop is at
    preds,       \* process_file: data.get("predictions", [])
    p,           \* process_file: index in preds of the prediction being inserted
    inserted,    \* process_file: inserted
    image_id,    \* insert_image_and_relations: image_id
    i,           \* insert_image_and_relations: i of the classifications loop
    j,           \* insert_image_and_relations: detections consumed by the loop
    conn,        \* the tables as the connection sees them (pending rows included)
    disk,        \* the committed tables of predictions.db
    total        \* main: total

vars == <<argv, csv_pc, csv_k, sum_rows, cls_rows, det_rows,
          pc, f, preds, p, inserted, image_id, i, j, conn, disk, total>>
csv_vars == <<csv_pc, csv_k, sum_rows, cls_rows, det_rows>>
db_vars == <<pc, f, preds, p, inserted, image_id, i, j, conn, disk, total>>

----------------------------------------------------------------------------
(* Bounds of the inputs *)
MaxFiles == 2      \* files on the command line
MaxPreds == 2      \* predictions per file
MaxClasses == 2    \* len(classes)
MaxScores == 2     \* len(scores)
MaxDets == 2       \* len(detections)
MaxBbox == 5       \* len(bbox)
MaxStrLen == 10    \* characters of a taxonomy string

----------------------------------------------------------------------------
(* Python values and built-ins *)
None == <<"None">>
Empty == <<>>

Max(a, b) == IF a >= b THEN a ELSE b

\* [fill] * count: the empty list when count <= 0
Repeat(fill, count) == IF count <= 0 THEN <<>> ELSE [k \in 1..count |-> fill]

\* d.get(key, default)
Get(d, key, default) == IF key \in DOMAIN d THEN d[key] ELSE default

\* s.split(";")
RECURSIVE Split(_)
Split(s) ==
    IF \A k \in 1..Len(s) : s[k] # ";"
    THEN <<s>>
    ELSE LET k == CHOOSE k \in 1..Len(s) :
                      s[k] = ";" /\ \A m \in 1..(k - 1) : s[m] # ";"
         IN  <<SubSeq(s, 1, k - 1)>> \o Split(SubSeq(s, k + 1, Len(s)))

\* the JSON numbers of the inputs.  They have a fraction, so json.load makes
\* them floats, which float() accepts and returns as they are.  float() turns a
\* str that spells a number into that number, and raises ValueError on a str
\* that spells none.
Numbers == {<<"0.1">>, <<"0.2">>}
NumericStrs == {<<"0", ".", "1">>}
CanFloat(v) == v \in Numbers \cup NumericStrs
Float(v) == IF v \in Numbers THEN v
            ELSE IF v = <<"0", ".", "1">> THEN <<"0.1">>
            ELSE None

\* truthiness of a str or None
Truthy(v) == v # None /\ v # Empty

----------------------------------------------------------------------------
(* json_to_csv.py *)

\* split_taxonomy reading common_name from the 9th slot of the documented layout
split_taxonomy_slot9(class_str) ==
    LET split == Split(class_str)
        parts == split \o Repeat(Empty, 9 - Len(split))
    IN  [class_uuid  |-> parts[1],
         kingdom     |-> parts[2],
         tax1        |-> parts[3],
         tax2        |-> parts[4],
         tax3        |-> parts[5],
         tax4        |-> parts[6],
         tax5        |-> parts[7],
         common_name |-> parts[9]]

split_taxonomy(class_str) ==
    LET split == Split(class_str)
        parts == split \o Repeat(Empty, 9 - Len(split))
    IN  [class_uuid  |-> parts[1],
         kingdom     |-> parts[2],
         tax1        |-> parts[3],
         tax2        |-> parts[4],
         tax3        |-> parts[5],
         tax4        |-> parts[6],
         tax5        |-> parts[7],
         common_name |-> IF Len(parts) > 7 THEN parts[8] ELSE Empty]

\* bbox = d.get("bbox", ["", "", "", ""]); bbox += [""] * (4 - len(bbox))
CsvBbox(d) ==
    LET bbox == Get(d, "bbox", <<Empty, Empty, Empty, Empty>>)
    IN  bbox \o Repeat(Empty, 4 - Len(bbox))

CsvClasses(pred) == Get(Get(pred, "classifications", <<>>), "classes", <<>>)
CsvScores(pred) == Get(Get(pred, "classifications", <<>>), "scores", <<>>)
CsvDetections(pred) == Get(pred, "detections", <<>>)

\* det0 taken from the last detection
Det0_last(detections) ==
    IF Len(detections) > 0 THEN detections[Len(detections)] ELSE <<>>

\* det0 = detections[0] if num_detections > 0 else {}
Det0(detections) == IF Len(detections) > 0 THEN detections[1] ELSE <<>>

SummaryRow(pred) ==
    LET classes == CsvClasses(pred)
        scores == CsvScores(pred)
        detections == CsvDetections(pred)
        det0 == Det0(detections)
        bbox == CsvBbox(det0)
    IN  [filepath        |-> Get(pred, "filepath", Empty),
         top_class       |-> IF Len(classes) > 0 THEN classes[1] ELSE Empty,
         top_score       |-> IF Len(scores) > 0 THEN scores[1] ELSE Empty,
         second_class    |-> IF Len(classes) > 1 THEN classes[2] ELSE Empty,
         second_score    |-> IF Len(scores) > 1 THEN scores[2] ELSE Empty,
         num_classes     |-> Max(Len(classes), Len(scores)),
         num_detections  |-> Len(detections),
         detection_label |-> Get(det0, "label", Empty),
         detection_conf  |-> Get(det0, "conf", Empty),
         bbox_x          |-> bbox[1],
         bbox_y          |-> bbox[2],
         bbox_w          |-> bbox[3],
         bbox_h          |-> bbox[4]]

\* the rows of "for i, cls in enumerate(classes)"; k is i + 1
CsvClassRow(pred, k) ==
    LET classes == CsvClasses(pred)
        scores == CsvScores(pred)
        tax == split_taxonomy(classes[k])
    IN  [filepath    |-> Get(pred, "filepath", Empty),
         class_rank  |-> k,
         class_uuid  |-> tax.class_uuid,
         kingdom     |-> tax.kingdom,
         tax1        |-> tax.tax1,
         tax2        |-> tax.tax2,
         tax3        |-> tax.tax3,
         tax4        |-> tax.tax4,
         tax5        |-> tax.tax5,
         common_name |-> tax.common_name,
         score       |-> IF k <= Len(scores) THEN scores[k] ELSE Empty]

CsvClassRows(pred) ==
    [k \in 1..Len(CsvClasses(pred)) |-> CsvClassRow(pred, k)]

\* the rows of "for i, d in enumerate(detections)"; k is i + 1
CsvDetRow(pred, k) ==
    LET d == CsvDetections(pred)[k]
        bbox == CsvBbox(d)
    IN  [filepath        |-> Get(pred, "filepath", Empty),
         detection_index |-> k,
         category        |-> Get(d, "category", Empty),
         label           |-> Get(d, "label", Empty),
         conf            |-> Get(d, "conf", Empty),
         bbox_x          |-> bbox[1],
         bbox_y          |-> bbox[2],
         bbox_w          |-> bbox[3],
         bbox_h          |-> bbox[4]]

CsvDetRows(pred) ==
    [k \in 1..Len(CsvDetections(pred)) |-> CsvDetRow(pred, k)]

\* INPUT_JSON = sys.argv[1]
INPUT_JSON == argv[1]

\* the predictions of a readable file
Predictions(file) == Get(file.data, "predictions", <<>>)

\* main, lines 36-70: load the document, open the three files, write the headers.
\* open() raises on a missing file and json.load on an invalid document; nothing
\* catches either.
CsvOpen ==
    /\ csv_pc = "start"
    /\ csv_pc' = IF INPUT_JSON.kind = "json" THEN "loop" ELSE "crashed"
    /\ UNCHANGED <<csv_k, sum_rows, cls_rows, det_rows>>

\* main, lines 72-159: one iteration of "for pred in data.get('predictions', [])"
CsvPred ==
    /\ csv_pc = "loop"
    /\ csv_k < Len(Predictions(INPUT_JSON))
    /\ LET pred == Predictions(INPUT_JSON)[csv_k + 1]
       IN  /\ sum_rows' = Append(sum_rows, SummaryRow(pred))
           /\ cls_rows' = cls_rows \o CsvClassRows(pred)
           /\ det_rows' = det_rows \o CsvDetRows(pred)
    /\ csv_k' = csv_k + 1
    /\ UNCHANGED csv_pc

\* main, lines 161-164: the loop is over, the files are closed
CsvClose ==
    /\ csv_pc = "loop"
    /\ csv_k = Len(Predictions(INPUT_JSON))
    /\ csv_pc' = "done"
    /\ UNCHANGED <<csv_k, sum_rows, cls_rows, det_rows>>

----------------------------------------------------------------------------
(* json_to_sqlite.py *)

EmptyTables == [images |-> <<>>, classifications |-> <<>>, detections |-> <<>>]

\* id INTEGER PRIMARY KEY AUTOINCREMENT: one more than the largest id of the table
NextId(table) == IF table = <<>> THEN 1 ELSE table[Len(table)].id + 1

\* the number of rows taken for the id of the last one
LastRowId_count(table) == Len(table)

\* cur.lastrowid after an INSERT into table
LastRowId(table) == table[Len(table)].id

parse_tax_string(s) ==
    LET split == Split(s)
        parts == split \o Repeat(None, 7 - Len(split))
    IN  SubSeq(parts, 1, 7)

DbClasses(pred) == Get(Get(pred, "classifications", <<>>), "classes", <<>>)
DbScores(pred) == Get(Get(pred, "classifications", <<>>), "scores", <<>>)
DbDetections(pred) == Get(pred, "detections", <<>>)

\* n taken from the classes alone
DbNumClasses_classes(pred) == Len(DbClasses(pred))

\* n = max(len(classes), len(scores))
DbNumClasses(pred) == Max(Len(DbClasses(pred)), Len(DbScores(pred)))

\* rank_integer of the row written by iteration k (0-based) of "for i in range(n)"
RankInteger(k) == k

\* float(scores[k]) raises in iteration k (0-based) of the classifications loop
ScoreRaises(pred, k) ==
    k < Len(DbScores(pred)) /\ ~CanFloat(DbScores(pred)[k + 1])

\* the row iteration k (0-based) of "for i in range(n)" inserts
DbClassRow(id, img, pred, k) ==
    LET classes == DbClasses(pred)
        scores == DbScores(pred)
        class_str == IF k < Len(classes) THEN classes[k + 1] ELSE None
        score == IF k < Len(scores) THEN Float(scores[k + 1]) ELSE None
        tax == IF Truthy(class_str) THEN parse_tax_string(class_str)
                                    ELSE Repeat(None, 7)
    IN  [id           |-> id,
         image_id     |-> img,
         class_uuid   |-> tax[1],
         tax_class    |-> tax[2],
         tax_order    |-> tax[3],
         tax_family   |-> tax[4],
         tax_genus    |-> tax[5],
         tax_species  |-> tax[6],
         common_name  |-> tax[7],
         score        |-> score,
         rank_integer |-> RankInteger(k)]

\* the padding put in front of the bbox
DbBbox_padleft(d) ==
    LET bbox == Get(d, "bbox", <<None, None, None, None>>)
    IN  SubSeq(Repeat(None, 4) \o bbox, 1, 4)

\* x,y,w,h = (bbox + [None]*4)[:4]
DbBbox(d) ==
    LET bbox == Get(d, "bbox", <<None, None, None, None>>)
    IN  SubSeq(bbox \o Repeat(None, 4), 1, 4)

\* the row the detections loop inserts for detection d
DbDetRow(id, img, d) ==
    LET bbox == DbBbox(d)
    IN  [id       |-> id,
         image_id |-> img,
         category |-> Get(d, "category", None),
         label    |-> Get(d, "label", None),
         conf     |-> Get(d, "conf", None),
         bbox_x   |-> bbox[1],
         bbox_y   |-> bbox[2],
         bbox_w   |-> bbox[3],
         bbox_h   |-> bbox[4]]

\* An exception nothing catches ends the interpreter; the connection is closed
\* without a commit, which rolls the pending transaction back.
Raise ==
    /\ pc' = "crashed"
    /\ conn' = disk
    /\ UNCHANGED <<f, preds, p, inserted, image_id, i, j, disk, total>>

\* main, lines 148-150: a path that is no file is reported and skipped
SkipFile ==
    /\ pc = "main"
    /\ f <= Len(argv)
    /\ argv[f].kind = "missing"
    /\ f' = f + 1
    /\ UNCHANGED <<pc, preds, p, inserted, image_id, i, j, conn, disk, total>>

\* main, line 151, and process_file, lines 125-129
LoadFile ==
    /\ pc = "main"
    /\ f <= Len(argv)
    /\ argv[f].kind # "missing"
    /\ IF argv[f].kind = "invalid"
       THEN Raise
       ELSE /\ preds' = Predictions(argv[f])
            /\ p' = 1
            /\ inserted' = 0
            /\ pc' = "preds"
            /\ UNCHANGED <<f, image_id, i, j, conn, disk, total>>

\* process_file, lines 130-131, and insert_image_and_relations, lines 75-94:
\* the INSERT into images (filepath TEXT NOT NULL) and image_id = cur.lastrowid
InsertImage ==
    /\ pc = "preds"
    /\ p <= Len(preds)
    /\ LET filepath == Get(preds[p], "filepath", None)
           images == Append(conn.images,
                            [id |-> NextId(conn.images), filepath |-> filepath])
       IN  IF filepath = None
           THEN Raise
           ELSE /\ conn' = [conn EXCEPT !.images = images]
                /\ image_id' = LastRowId(images)
                /\ i' = 0
                /\ j' = 0
                /\ pc' = "insert"
                /\ UNCHANGED <<f, preds, p, inserted, disk, total>>

\* insert_image_and_relations, lines 95-107: one iteration of "for i in range(n)"
InsertClassification ==
    /\ pc = "insert"
    /\ i < DbNumClasses(preds[p])
    /\ IF ScoreRaises(preds[p], i)
       THEN Raise
       ELSE /\ conn' = [conn EXCEPT !.classifications =
                           Append(@, DbClassRow(NextId(@), image_id, preds[p], i))]
            /\ i' = i + 1
            /\ UNCHANGED <<pc, f, preds, p, inserted, image_id, j, disk, total>>

\* insert_image_and_relations, lines 110-120: one iteration of "for d in detections"
InsertDetection ==
    /\ pc = "insert"
    /\ i = DbNumClasses(preds[p])
    /\ j < Len(DbDetections(preds[p]))
    /\ conn' = [conn EXCEPT !.detections =
                   Append(@, DbDetRow(NextId(@), image_id, DbDetections(preds[p])[j + 1]))]
    /\ j' = j + 1
    /\ UNCHANGED <<pc, f, preds, p, inserted, image_id, i, disk, total>>

\* a commit after every record
ReturnImageId_commit ==
    /\ pc = "insert"
    /\ i = DbNumClasses(preds[p])
    /\ j = Len(DbDetections(preds[p]))
    /\ inserted' = inserted + 1
    /\ p' = p + 1
    /\ pc' = "preds"
    /\ disk' = conn
    /\ UNCHANGED <<f, preds, image_id, i, j, conn, total>>

\* insert_image_and_relations, line 122, and process_file, line 132
ReturnImageId ==
    /\ pc = "insert"
    /\ i = DbNumClasses(preds[p])
    /\ j = Len(DbDetections(preds[p]))
    /\ inserted' = inserted + 1
    /\ p' = p + 1
    /\ pc' = "preds"
    /\ UNCHANGED <<f, preds, image_id, i, j, conn, disk, total>>

\* process_file, lines 133-134, and main, lines 152-153
Commit ==
    /\ pc = "preds"
    /\ p > Len(preds)
    /\ disk' = conn
    /\ total' = total + inserted
    /\ f' = f + 1
    /\ pc' = "main"
    /\ UNCHANGED <<preds, p, inserted, image_id, i, j, conn>>

\* main, lines 155-156
Close ==
    /\ pc = "main"
    /\ f > Len(argv)
    /\ pc' = "done"
    /\ UNCHANGED <<f, preds, p, inserted, image_id, i, j, conn, disk, total>>

----------------------------------------------------------------------------
(* The inputs *)

SeqsUpTo(S, n) == UNION {[1..m -> S] : m \in 0..n}

\* taxonomy strings of the flattening inputs
ClassStrs == {<<"a", ";", "b">>, <<"c">>, Empty}

\* scores: the two numbers, a JSON string that spells a number and one that
\* spells none
ScoreVals == Numbers \cup NumericStrs \cup {<<"x">>}

\* the bbox of length n
BboxLiterals == <<"10", "20", "30", "40", "50", "60", "70", "80">>
BboxOfLen(n) == [k \in 1..n |-> <<BboxLiterals[k]>>]

\* detections: with and without the bbox and label keys
Dets ==
    LET core == [category |-> <<"1">>, conf |-> <<"0.9">>]
        withLabel(d) == {d, d @@ [label |-> <<"animal">>]}
    IN  UNION {withLabel(core @@ [bbox |-> BboxOfLen(n)]) : n \in 0..MaxBbox}
        \cup withLabel(core)

Pred(classes, scores, detections) ==
    [filepath        |-> <<"img.jpg">>,
     classifications |-> [classes |-> classes, scores |-> scores],
     detections      |-> detections]

JsonFile(predictions) == [kind |-> "json", data |-> [predictions |-> predictions]]

\* one prediction whose classes and scores have any lengths
AlignmentInputs ==
    {<<JsonFile(<<Pred(c, s, <<>>)>>)>> :
        c \in SeqsUpTo(ClassStrs, MaxClasses), s \in SeqsUpTo(ScoreVals, MaxScores)}

\* one prediction with any detections
DetectionInputs ==
    {<<JsonFile(<<Pred(<<>>, <<>>, d)>>)>> : d \in SeqsUpTo(Dets, MaxDets)}

\* one prediction with one taxonomy string of any shape
TaxonomyInputs ==
    {<<JsonFile(<<Pred(<<s>>, <<>>, <<>>)>>)>> : s \in SeqsUpTo({"a", ";"}, MaxStrLen)}

\* a prediction with 2 classifications and 1 detection, and the same without filepath
GoodPred == Pred(<<<<"a", ";", "b">>, <<"c">>>>, <<<<"0.1">>, <<"0.2">>>>,
                 <<[category |-> <<"1">>, label |-> <<"animal">>, conf |-> <<"0.9">>,
                    bbox |-> BboxOfLen(4)]>>)
NoFilepathPred == [k \in DOMAIN GoodPred \ {"filepath"} |-> GoodPred[k]]

Files ==
    {[kind |-> "missing"], [kind |-> "invalid"]}
    \cup {JsonFile(ps) : ps \in SeqsUpTo({GoodPred, NoFilepathPred}, MaxPreds)}

\* several files
FileInputs == SeqsUpTo(Files, MaxFiles) \ {<<>>}

\* predictions.db as an earlier run left it (CREATE TABLE IF NOT EXISTS keeps it)
PriorTables ==
    [images          |-> <<[id |-> 3, filepath |-> <<"old.jpg">>]>>,
     classifications |-> <<[id |-> 5, image_id |-> 3, class_uuid |-> <<"o">>,
                            tax_class |-> None, tax_order |-> None,
                            tax_family |-> None, tax_genus |-> None,
                            tax_species |-> None, common_name |-> None,
                            score |-> <<"0.2">>, rank_integer |-> 0]>>,
     detections      |-> <<>>]

Inputs == AlignmentInputs \cup DetectionInputs \cup TaxonomyInputs \cup FileInputs

----------------------------------------------------------------------------
Init ==
    /\ argv \in Inputs
    /\ csv_pc = "start"
    /\ csv_k = 0
    /\ sum_rows = <<>>
    /\ cls_rows = <<>>
    /\ det_rows = <<>>
    /\ pc = "main"
    /\ f = 1
    /\ preds = <<>>
    /\ p = 0
    /\ inserted = 0
    /\ image_id = 0
    /\ i = 0
    /\ j = 0
    /\ disk \in {EmptyTables, PriorTables}
    /\ conn = disk
    /\ total = 0

CsvNext == (CsvOpen \/ CsvPred \/ CsvClose) /\ UNCHANGED <<argv, db_vars>>

DbNext ==
    /\ \/ SkipFile
       \/ LoadFile
       \/ InsertImage
       \/ InsertClassification
       \/ InsertDetection
       \/ ReturnImageId
       \/ Commit
       \/ Close
    /\ UNCHANGED <<argv, csv_vars>>

Next == CsvNext \/ DbNext

Spec == Init /\ [][Next]_vars

----------------------------------------------------------------------------
(* Vocabulary of the properties *)

Min(a, b) == IF a <= b THEN a ELSE b

RECURSIVE Sum(_, _)
\* fn(1) + ... + fn(n)
Sum(fn(_), n) == IF n <= 0 THEN 0 ELSE fn(n) + Sum(fn, n - 1)

\* the rows of a table that this run inserted
RunRows(table, prior) == SubSeq(table, Len(prior) + 1, Len(table))
Prior == IF disk.images # <<>> /\ disk.images[1] = PriorTables.images[1]
         THEN PriorTables ELSE EmptyTables

\* the classification and detection rows of the image with surrogate key id
ClassRowsOf(t, id) == SelectSeq(t.classifications, LAMBDA r : r.image_id = id)
DetRowsOf(t, id) == SelectSeq(t.detections, LAMBDA r : r.image_id = id)

\* the input of a prediction record, read off the document
ClassesOf(pred) == IF "classifications" \in DOMAIN pred /\ "classes" \in DOMAIN pred.classifications
                   THEN pred.classifications.classes ELSE <<>>
ScoresOf(pred) == IF "classifications" \in DOMAIN pred /\ "scores" \in DOMAIN pred.classifications
                  THEN pred.classifications.scores ELSE <<>>
DetectionsOf(pred) == IF "detections" \in DOMAIN pred THEN pred.detections ELSE <<>>
NumClassesOf(pred) == Max(Len(ClassesOf(pred)), Len(ScoresOf(pred)))

\* the records the CSV converter has consumed, and where the rows of record k
\* start in classifications.csv and detections.csv if every record before it
\* wrote as many rows as the specification says
CsvRecord(k) == Predictions(INPUT_JSON)[k]
CsvClsOffset(k) == LET n(r) == NumClassesOf(CsvRecord(r)) IN Sum(n, k - 1)
CsvDetOffset(k) == LET n(r) == Len(DetectionsOf(CsvRecord(r))) IN Sum(n, k - 1)

\* the records of the file the relational converter is in whose insertion has
\* returned, and the image row of record k of that file
DbDone == IF pc \in {"preds", "insert"} THEN p - 1 ELSE 0
DbImage(k) == conn.images[Len(disk.images) + k]

\* an empty field: "" in a CSV row, NULL in a table row
IsEmpty(v) == v = Empty \/ v = None

----------------------------------------------------------------------------
(* C1: for every prediction record the flattener reports                   *)
(* num_classes = max(len(classes), len(scores)) and emits exactly that     *)
(* many classification rows; a row at a position where classes has no      *)
(* element has empty taxonomy fields and carries scores[i]: no score is    *)
(* dropped.                                                                *)
C1_Csv ==
    \A k \in 1..csv_k :
        LET pred == CsvRecord(k)
            n == NumClassesOf(pred)
            off == CsvClsOffset(k)
        IN  /\ sum_rows[k].num_classes = n
            /\ Len(cls_rows) >= off + n
            /\ k = csv_k => Len(cls_rows) = off + n
            /\ \A m \in (Len(ClassesOf(pred)) + 1)..n :
                   /\ cls_rows[off + m].class_uuid = Empty
                   /\ cls_rows[off + m].common_name = Empty
                   /\ cls_rows[off + m].score = ScoresOf(pred)[m]

C1_Db ==
    \A k \in 1..DbDone :
        LET pred == preds[k]
            n == NumClassesOf(pred)
            rows == ClassRowsOf(conn, DbImage(k).id)
        IN  /\ Len(rows) = n
            /\ \A m \in (Len(ClassesOf(pred)) + 1)..n :
                   /\ rows[m].class_uuid = None
                   /\ rows[m].common_name = None
                   /\ rows[m].score = ScoresOf(pred)[m]

C1_Claim == C1_Csv /\ C1_Db

(* C2: the rank values on one image's classification rows are, in input    *)
(* order, exactly 1, 2, ..., num_classes (class_rank in the CSV converter, *)
(* rank_integer in the relational converter).                              *)
C2_Csv ==
    \A k \in 1..csv_k :
        LET n == NumClassesOf(CsvRecord(k))
            off == CsvClsOffset(k)
        IN  /\ Len(cls_rows) >= off + n
            /\ k = csv_k => Len(cls_rows) = off + n
            /\ \A m \in 1..n : cls_rows[off + m].class_rank = m

C2_Db ==
    \A k \in 1..DbDone :
        LET rows == ClassRowsOf(conn, DbImage(k).id)
        IN  /\ Len(rows) = NumClassesOf(preds[k])
            /\ \A m \in 1..Len(rows) : rows[m].rank_integer = m

C2_Claim == C2_Csv /\ C2_Db

----------------------------------------------------------------------------
\* where the rows of record k start in classifications.csv, one row per class
CsvClsStart(k) == LET n(r) == Len(ClassesOf(CsvRecord(r))) IN Sum(n, k - 1)

\* the records of the current file that have an image row (the last one may
\* still be receiving its child rows)
DbRecords == 1..(IF pc = "insert" THEN p ELSE DbDone)

\* "a;b" from <<"a", "b">>
RECURSIVE Join(_)
Join(segs) ==
    IF Len(segs) = 1 THEN segs[1] ELSE segs[1] \o <<";">> \o Join(Tail(segs))

\* segs are the segments of s split on ';'
IsSegmentsOf(segs, s) ==
    /\ Len(segs) >= 1
    /\ \A m \in 1..Len(segs) : \A c \in 1..Len(segs[m]) : segs[m][c] # ";"
    /\ Join(segs) = s

\* arity positional fields: the first segments in order, then fill
IsPaddedParse(fields, s, arity, fill) ==
    LET segs == Split(s)
    IN  /\ IsSegmentsOf(segs, s)
        /\ Len(fields) = arity
        /\ \A m \in 1..Min(Len(fields), arity) :
               fields[m] = IF m <= Len(segs) THEN segs[m] ELSE fill

TaxFieldsCsv(row) ==
    <<row.class_uuid, row.kingdom, row.tax1, row.tax2, row.tax3, row.tax4,
      row.tax5, row.common_name>>
TaxFieldsDb(row) ==
    <<row.class_uuid, row.tax_class, row.tax_order, row.tax_family,
      row.tax_genus, row.tax_species, row.common_name>>

\* every taxonomy string the CSV converter has parsed gave arity fields
CsvParses(arity) ==
    \A k \in 1..csv_k : \A m \in 1..Len(ClassesOf(CsvRecord(k))) :
        /\ Len(cls_rows) >= CsvClsStart(k) + m
        /\ IsPaddedParse(TaxFieldsCsv(cls_rows[CsvClsStart(k) + m]),
                         ClassesOf(CsvRecord(k))[m], arity, Empty)

\* every taxonomy string the relational converter has parsed gave arity fields
\* (it parses the class strings that are not empty)
DbParses(arity) ==
    \A k \in DbRecords :
        LET rows == ClassRowsOf(conn, DbImage(k).id)
            classes == ClassesOf(preds[k])
        IN  \A m \in 1..Min(Len(rows), Len(classes)) :
                classes[m] # Empty =>
                    IsPaddedParse(TaxFieldsDb(rows[m]), classes[m], arity, None)

\* the converters end in an error only for a cause other than the shape of a
\* taxonomy string or of a bbox
BadScore(pred) ==
    \E m \in 1..Len(ScoresOf(pred)) : ScoresOf(pred)[m] \notin Numbers \cup NumericStrs
DbFailureCause ==
    \E k \in 1..Len(argv) :
        \/ argv[k].kind = "invalid"
        \/ /\ argv[k].kind = "json"
           /\ \E m \in 1..Len(Predictions(argv[k])) :
                  \/ "filepath" \notin DOMAIN Predictions(argv[k])[m]
                  \/ BadScore(Predictions(argv[k])[m])
NoShapeError ==
    /\ csv_pc = "crashed" => INPUT_JSON.kind # "json"
    /\ pc = "crashed" => DbFailureCause

----------------------------------------------------------------------------
\* the first four elements of the bbox of d, padded on the right with fill
PaddedBbox(d, fill) ==
    LET bbox == IF "bbox" \in DOMAIN d THEN d.bbox ELSE <<>>
    IN  [m \in 1..4 |-> IF m <= Len(bbox) THEN bbox[m] ELSE fill]

BboxOf(row) == <<row.bbox_x, row.bbox_y, row.bbox_w, row.bbox_h>>

(* C4: the four bbox components of every detection row are the first four  *)
(* elements of the input bbox padded on the right with empty values (an    *)
(* absent bbox counts as length 0; elements past the 4th are dropped), and *)
(* no bbox length causes an error.                                         *)
C4_Bbox ==
    /\ \A k \in 1..csv_k :
           LET dets == DetectionsOf(CsvRecord(k))
               off == CsvDetOffset(k)
           IN  /\ Len(det_rows) >= off + Len(dets)
               /\ \A m \in 1..Len(dets) :
                      BboxOf(det_rows[off + m]) = PaddedBbox(dets[m], Empty)
    /\ \A k \in DbRecords :
           LET dets == DetectionsOf(preds[k])
               rows == DetRowsOf(conn, DbImage(k).id)
           IN  /\ Len(rows) <= Len(dets)
               /\ k <= DbDone => Len(rows) = Len(dets)
               /\ \A m \in 1..Len(rows) : BboxOf(rows[m]) = PaddedBbox(dets[m], None)
    /\ NoShapeError

\* both converters are done with a record whose detections have a bbox of 2 and
\* a bbox of 5 elements
C4_Witness ==
    /\ csv_pc = "done"
    /\ pc = "done"
    /\ Len(det_rows) = 2
    /\ Len(RunRows(disk.detections, Prior.detections)) = 2
    /\ \A m \in 1..2 : "bbox" \in DOMAIN DetectionsOf(CsvRecord(1))[m]
    /\ Len(DetectionsOf(CsvRecord(1))[1].bbox) = 2
    /\ Len(DetectionsOf(CsvRecord(1))[2].bbox) = 5
    /\ det_rows[1].bbox_w = Empty
    /\ RunRows(disk.detections, Prior.detections)[1].bbox_w = None

----------------------------------------------------------------------------
\* table t has the rows of table s as its first rows, unchanged
IsPrefix(s, t) == Len(s) <= Len(t) /\ SubSeq(t, 1, Len(s)) = s

ImageIds(t) == {t.images[m].id : m \in 1..Len(t.images)}
ChildImageIds(t) ==
    {t.classifications[m].image_id : m \in 1..Len(t.classifications)}
    \cup {t.detections[m].image_id : m \in 1..Len(t.detections)}

(* C5: in the relational converter, at every point of a run, every row of  *)
(* classifications and of detections has the image_id of a row present in  *)
(* images; the children of a record carry the id its own image insertion   *)
(* returned, never the id of another record's image.                       *)
C5_RefIntegrity ==
    /\ ChildImageIds(conn) \subseteq ImageIds(conn)
    /\ ChildImageIds(disk) \subseteq ImageIds(disk)
    /\ \A m, n \in 1..Len(conn.images) :
           conn.images[m].id = conn.images[n].id => m = n
    /\ pc = "insert" => image_id = DbImage(p).id
    /\ ChildImageIds([classifications |-> RunRows(conn.classifications, disk.classifications),
                      detections |-> RunRows(conn.detections, disk.detections)])
           \subseteq {DbImage(k).id : k \in DbRecords}
    /\ \A k \in DbRecords :
           /\ Len(ClassRowsOf(conn, DbImage(k).id)) <= NumClassesOf(preds[k])
           /\ Len(DetRowsOf(conn, DbImage(k).id)) <= Len(DetectionsOf(preds[k]))

\* the second record of the second file has its image row and some child rows,
\* inserted but not committed
C5_Witness ==
    /\ pc = "insert"
    /\ f = 2
    /\ p = 2
    /\ i = 2
    /\ j = 1
    /\ Len(disk.images) >= 2
    /\ Len(DetRowsOf(conn, image_id)) = 1

(* C6: inserting one prediction record with n = max(len(classes),          *)
(* len(scores)) classification positions and d detections adds exactly 1   *)
(* row to images, n rows to classifications and d rows to detections, all  *)
(* n + d of them referencing the new image's surrogate key; the rows of    *)
(* the records inserted before are unchanged.                              *)
C6_Counts ==
    pc \in {"preds", "insert"} =>
        LET n(k) == NumClassesOf(preds[k])
            d(k) == Len(DetectionsOf(preds[k]))
        IN  /\ Len(conn.images) = Len(disk.images) + Cardinality(DbRecords)
            /\ Len(conn.classifications) =
                   Len(disk.classifications) + Sum(n, DbDone)
                       + (IF pc = "insert" THEN i ELSE 0)
            /\ Len(conn.detections) =
                   Len(disk.detections) + Sum(d, DbDone)
                       + (IF pc = "insert" THEN j ELSE 0)
            /\ \A k \in 1..DbDone :
                   /\ Len(SelectSeq(conn.images, LAMBDA r : r.id = DbImage(k).id)) = 1
                   /\ Len(ClassRowsOf(conn, DbImage(k).id)) = n(k)
                   /\ Len(DetRowsOf(conn, DbImage(k).id)) = d(k)

C6_RowsKept ==
    pc' # "crashed" =>
        /\ IsPrefix(conn.images, conn'.images)
        /\ IsPrefix(conn.classifications, conn'.classifications)
        /\ IsPrefix(conn.detections, conn'.detections)

C6_Insert == []C6_Counts /\ [][C6_RowsKept]_vars

\* a record with 2 classifications and 1 detection has been inserted into an
\* empty database: 1, 2 and 1 rows
C6_Witness ==
    /\ pc = "preds"
    /\ p = 2
    /\ preds[1] = GoodPred
    /\ disk = EmptyTables
    /\ Len(conn.images) = 1
    /\ Len(conn.classifications) = 2
    /\ Len(conn.detections) = 1

----------------------------------------------------------------------------
\* the relational converter can process the file: it is JSON and no insertion
\* of its predictions fails
Processable(file) ==
    /\ file.kind = "json"
    /\ \A m \in 1..Len(Predictions(file)) :
           /\ "filepath" \in DOMAIN Predictions(file)[m]
           /\ ~BadScore(Predictions(file)[m])

(* C7: when processing of one file fails, none of its rows are committed   *)
(* and processing continues with the next input file: every later file     *)
(* that can be processed is processed and committed.  So when the run is   *)
(* over, the images this run committed are those of all the files that can *)
(* be processed.                                                           *)
C7_Claim ==
    pc \in {"done", "crashed"} =>
        LET n(k) == IF Processable(argv[k]) THEN Len(Predictions(argv[k])) ELSE 0
        IN  Len(RunRows(disk.images, Prior.images)) = Sum(n, Len(argv))

(* C8: the rows of each file are committed as one batch exactly when the   *)
(* file has been completely processed (no commit in the middle of a file), *)
(* and a failure in a later file never removes or changes rows committed   *)
(* for earlier files.                                                      *)
C8_Step ==
    /\ IsPrefix(disk.images, disk'.images)
    /\ IsPrefix(disk.classifications, disk'.classifications)
    /\ IsPrefix(disk.detections, disk'.detections)
    /\ disk' # disk => pc = "preds" /\ p > Len(preds) /\ pc' = "main"
    /\ (pc = "preds" /\ pc' = "main") =>
           /\ disk' = conn
           /\ Len(disk'.images) = Len(disk.images) + Len(preds)
    /\ pc' \in {"main", "done", "crashed"} => conn' = disk'

C8_Batches == [][C8_Step]_vars

\* the second file failed at its second record, after its first record was
\* inserted; the rows of the first file are committed
C8_Witness ==
    /\ pc = "crashed"
    /\ f = 2
    /\ p = 2
    /\ argv[1].kind = "json"
    /\ Len(Predictions(argv[1])) = 2
    /\ Len(RunRows(disk.images, Prior.images)) = 2
    /\ Len(disk.classifications) = Len(Prior.classifications) + 4

----------------------------------------------------------------------------
\* the same value in a CSV row and in a table row
SameValue(csv, db) == (IsEmpty(csv) /\ IsEmpty(db)) \/ csv = db

(* C9: the CSV converter and the relational converter apply identical      *)
(* flattening semantics: for every prediction record the same number of    *)
(* classification rows and of detection rows, and at each position the     *)
(* same pairing of class (or absent) with score (or absent) and the same   *)
(* rank value.                                                             *)
C9_Claim ==
    (csv_pc = "done" /\ f > 1 /\ INPUT_JSON.kind = "json") =>
        \A k \in 1..Len(Predictions(INPUT_JSON)) :
            LET img == RunRows(disk.images, Prior.images)[k]
                dbc == ClassRowsOf(disk, img.id)
                dbd == DetRowsOf(disk, img.id)
                csvc == SubSeq(cls_rows, CsvClsStart(k) + 1, CsvClsStart(k + 1))
                csvd == SubSeq(det_rows, CsvDetOffset(k) + 1, CsvDetOffset(k + 1))
            IN  /\ Len(csvc) = Len(dbc)
                /\ Len(csvd) = Len(dbd)
                /\ \A m \in 1..Min(Len(csvc), Len(dbc)) :
                       /\ csvc[m].class_rank = dbc[m].rank_integer
                       /\ SameValue(csvc[m].class_uuid, dbc[m].class_uuid)
                       /\ SameValue(csvc[m].score, dbc[m].score)

----------------------------------------------------------------------------
(* C10: the first-detection fields of the image summary row                *)
(* (detection_label, detection_conf, bbox_x, bbox_y, bbox_w, bbox_h) are   *)
(* all empty when detections is empty, with num_detections = 0 and no      *)
(* detection row; otherwise they are the label, conf and 4-padded bbox of  *)
(* detection index 0, the values of the detection row of detection_index 1.*)
C10_FirstDetection ==
    \A k \in 1..csv_k :
        LET dets == DetectionsOf(CsvRecord(k))
            off == CsvDetOffset(k)
            row == sum_rows[k]
        IN  /\ row.num_detections = Len(dets)
            /\ Len(det_rows) >= off + Len(dets)
            /\ k = csv_k => Len(det_rows) = off + Len(dets)
            /\ IF dets = <<>>
               THEN /\ row.detection_label = Empty
                    /\ row.detection_conf = Empty
                    /\ BboxOf(row) = <<Empty, Empty, Empty, Empty>>
               ELSE /\ row.detection_label =
                           (IF "label" \in DOMAIN dets[1] THEN dets[1].label ELSE Empty)
                    /\ row.detection_conf =
                           (IF "conf" \in DOMAIN dets[1] THEN dets[1].conf ELSE Empty)
                    /\ BboxOf(row) = PaddedBbox(dets[1], Empty)
                    /\ Len(det_rows) >= off + 1 =>
                           /\ det_rows[off + 1].detection_index = 1
                           /\ det_rows[off + 1].label = row.detection_label
                           /\ det_rows[off + 1].conf = row.detection_conf
                           /\ BboxOf(det_rows[off + 1]) = BboxOf(row)

\* the summary row of a record with two detections, the first with a label and a
\* bbox of 2 elements, the second with neither
C10_Witness ==
    /\ csv_pc = "done"
    /\ Len(sum_rows) = 1
    /\ sum_rows[1].num_detections = 2
    /\ "bbox" \notin DOMAIN DetectionsOf(CsvRecord(1))[2]
    /\ "label" \notin DOMAIN DetectionsOf(CsvRecord(1))[2]
    /\ sum_rows[1].detection_label = <<"animal">>
    /\ sum_rows[1].bbox_y = <<"20">>
    /\ sum_rows[1].bbox_w = Empty

----------------------------------------------------------------------------
(* C11: the flattener performs no coercion of score values: for every      *)
(* prediction record and every position i < len(scores), the score written *)
(* on the classification row of position i is exactly the input value      *)
(* scores[i], whatever its type, in both converters, and writing it never  *)
(* fails because of the value's type.                                      *)
C11_Csv ==
    \A k \in 1..csv_k :
        LET scores == ScoresOf(CsvRecord(k))
            off == CsvClsOffset(k)
        IN  /\ Len(cls_rows) >= off + Len(scores)
            /\ \A m \in 1..Len(scores) : cls_rows[off + m].score = scores[m]

C11_Db ==
    \A k \in DbRecords :
        LET scores == ScoresOf(preds[k])
            rows == ClassRowsOf(conn, DbImage(k).id)
        IN  /\ k <= DbDone => Len(rows) >= Len(scores)
            /\ \A m \in 1..Min(Len(rows), Len(scores)) : rows[m].score = scores[m]

\* the relational converter ends in an error only at a file that is not JSON
\* or at a record without filepath
C11_NoScoreError ==
    pc = "crashed" =>
        \/ argv[f].kind = "invalid"
        \/ "filepath" \notin DOMAIN preds[p]

C11_Claim == C11_Csv /\ C11_Db /\ C11_NoScoreError

====
